---- MODULE Spec2Model ----
(***************************************************************************)
(* Model of the Minesweeper engine of deep_mine (src/minesweeper.py):      *)
(* class MinesweeperGame with its operations PlantFlag, Dig, Neighborhood, *)
(* Print and AsEmoji, driven by an arbitrary caller.                       *)
(***************************************************************************)
EXTENDS Integers, Sequences, FiniteSets, TLC

\* Bounds of the model.
MaxRows == 2
MaxCols == 3
MaxCells == 6
MaxMines == 1
MaxRadius == 1
MaxCalls == 3
MaxSeed == 1
RngSize == 6
MaxMoves == 3
MaxGames == 2

VARIABLES
    num_rows,        \* self.num_rows
    num_cols,        \* self.num_cols
    mine_positions,  \* self.mine_positions
    num_neighbors,   \* self.num_neighbors
    board,           \* self.board
    dug_count,       \* self.dug_count
    flag_count,      \* self.flag_count
    dead,            \* self.dead
    recently_poked,  \* self.recently_poked
    calls,           \* number of calls the caller has made on the game
    last,            \* the caller's record of the last call
    dug_cells,       \* history: in-bounds cells on which Dig has run on a live board
    revealed_ever,   \* history: cells that Dig has set to a number
    rng,             \* the state of the module-level generator of random
    ctor,            \* the caller's record of the last constructor call
    first,           \* history: an earlier construction, kept for comparison
    job              \* a bot's load_game_state: its position and its outcome

vars == <<num_rows, num_cols, mine_positions, num_neighbors, board, dug_count,
          flag_count, dead, recently_poked, calls, last, dug_cells, revealed_ever,
          rng, ctor, first, job>>

game == <<num_rows, num_cols, mine_positions, num_neighbors, board, dug_count,
          flag_count, dead, recently_poked>>

----------------------------------------------------------------------------
\* CellValue members: (text, emoji, int) triples; a dug cell holds a plain int.
UNKNOWN == [name |-> "UNKNOWN", text |-> ".", code |-> -1]
FLAG == [name |-> "FLAG", text |-> "F", code |-> -2]
OUT_OF_BOUNDS == [name |-> "OUT_OF_BOUNDS", text |-> "x", code |-> -3]
MINE == [name |-> "MINE", text |-> "#", code |-> -4]
LAVA == [name |-> "LAVA", text |-> "~", code |-> -5]

CellValue == {UNKNOWN, FLAG, OUT_OF_BOUNDS, MINE, LAVA}

\* A plain Python int n stored in a cell.
Num(n) == [name |-> "int", text |-> "", code |-> n]

IsNum(v) == v.name = "int"

\* Mutant: a flag reads as an unknown cell.
CellInt_flag_hidden(v) == IF v.name = "FLAG" THEN -1 ELSE v.code

\* int(v): CellValue.__int__ gives the third component of the member's value;
\* a plain int is its own value.
CellInt(v) == v.code

----------------------------------------------------------------------------
Grid(rows, cols) == (0 .. rows - 1) \X (0 .. cols - 1)

Cells == Grid(num_rows, num_cols)

ValidPositionIn(rows, cols, row, col) ==
    0 <= row /\ row < rows /\ 0 <= col /\ col < cols

ValidPosition(row, col) == ValidPositionIn(num_rows, num_cols, row, col)

\* The 3x3 window (drow, dcol) in the order of the nested for loops.
Window(row, col) ==
    << <<row - 1, col - 1>>, <<row - 1, col>>, <<row - 1, col + 1>>,
       <<row, col - 1>>,     <<row, col>>,     <<row, col + 1>>,
       <<row + 1, col - 1>>, <<row + 1, col>>, <<row + 1, col + 1>> >>

\* One mine's pass over its window: every valid position gets += 1.
RECURSIVE IncrementWindow(_, _, _, _, _)
IncrementWindow(nn, rows, cols, w, i) ==
    IF i > Len(w) THEN nn
    ELSE IF ValidPositionIn(rows, cols, w[i][1], w[i][2])
         THEN IncrementWindow([nn EXCEPT ![w[i]] = @ + 1], rows, cols, w, i + 1)
         ELSE IncrementWindow(nn, rows, cols, w, i + 1)

\* The precomputation loop over the mines.
RECURSIVE CountNeighbors(_, _, _, _)
CountNeighbors(nn, rows, cols, mines) ==
    IF mines = {} THEN nn
    ELSE LET m == CHOOSE x \in mines : TRUE
         IN CountNeighbors(IncrementWindow(nn, rows, cols, Window(m[1], m[2]), 1),
                           rows, cols, mines \ {m})

\* Mutant: the sample has any size up to num_mines + 1.
Sample_any_size(cells, num_mines) ==
    {s \in SUBSET cells : Cardinality(s) <= num_mines + 1}

\* set(random.sample(cells, num_mines)) under a generator in any state: any
\* num_mines distinct cells.
Sample(cells, num_mines) == {s \in SUBSET cells : Cardinality(s) = num_mines}

\* The caller's record of a constructor call: its arguments (seed is <<>> for
\* None, <<s>> for the int s) and how it ended.
Construction(rows, cols, num_mines, seed, ret) ==
    [num_rows |-> rows, num_cols |-> cols, num_mines |-> num_mines,
     seed |-> seed, ret |-> ret]

\* A row of the moves table as load_game_state unpacks it.
Row(move_id, cmd, row, col) ==
    [move_id |-> move_id, cmd |-> cmd, row |-> row, col |-> col]

NoRow == Row(-1, "", 0, 0)

\* load_game_state before its first row: enumerate() is at 0, game_id is
\* None (0), nothing is returned or raised yet.
NoJob ==
    [pc |-> "loop", step |-> "start", expected |-> 0, row |-> NoRow,
     game_id |-> 0, ret_game_id |-> 0, ret_move_id |-> 0, err |-> ""]

\* The caller's record of a call: the operation, the cell it was aimed at
\* (Dig and PlantFlag) and how it ended (the value returned or the exception).
Call(op, row, col, ret) == [op |-> op, row |-> row, col |-> col, ret |-> ret]

NoCall == Call("__init__", 0, 0, "None")

Init ==
    \E rows \in 1 .. MaxRows, cols \in 1 .. MaxCols, n \in 0 .. MaxMines :
        /\ rows * cols <= MaxCells
        /\ n <= rows * cols
        /\ num_rows = rows
        /\ num_cols = cols
        /\ dead = FALSE
        /\ mine_positions \in Sample(Grid(rows, cols), n)
        /\ num_neighbors = CountNeighbors([p \in Grid(rows, cols) |-> 0],
                                          rows, cols, mine_positions)
        /\ board = [p \in Grid(rows, cols) |-> UNKNOWN]
        /\ dug_count = 0
        /\ flag_count = 0
        /\ recently_poked = <<>>
        /\ calls = 0
        /\ last = NoCall
        /\ dug_cells = {}
        /\ revealed_ever = {}
        /\ rng = 0    \* the game never reads the generator after construction
        /\ ctor = Construction(rows, cols, n, <<>>, "game")
        /\ first = <<>>
        /\ job = NoJob

----------------------------------------------------------------------------
NumMinesTotal == Cardinality(mine_positions)

NumUnflagged == Cardinality(mine_positions) - flag_count

Dead == dead

\* Mutant: the win test lets planted flags count as cleared cells.
WonWith_flags(b, dc) == (Cardinality(DOMAIN b) - dc - flag_count) = NumMinesTotal

\* Won() evaluated on a board b with dug_count dc.
WonWith(b, dc) == (Cardinality(DOMAIN b) - dc) = NumMinesTotal

Won == WonWith(board, dug_count)

\* list.append takes exactly one argument; any other number of arguments
\* raises TypeError and leaves the list alone.
ListAppend(list, args) ==
    IF Len(args) = 1
    THEN [raised |-> "None", list |-> Append(list, args[1])]
    ELSE [raised |-> "TypeError", list |-> list]

\* The outcome of a call that changes nothing and ends with ret.
Same(ret) == [ret |-> ret, board |-> board, dead |-> dead, dug_count |-> dug_count,
              flag_count |-> flag_count, recently_poked |-> recently_poked]

----------------------------------------------------------------------------
\* Mutant: the flag is counted before the position is checked.
PlantFlagResult_count_first(row, col) ==
    IF ~ValidPosition(row, col)
    THEN [Same("ValueError") EXCEPT !.flag_count = flag_count + 1]
    ELSE LET app == ListAppend(recently_poked, <<row, col>>)
         IN [Same(app.raised) EXCEPT
                !.board = [board EXCEPT ![<<row, col>>] = FLAG],
                !.flag_count = flag_count + 1,
                !.recently_poked = app.list]

\* PlantFlag(row, col): the statements in order; the exception of the last
\* one leaves the first two assignments in place.
PlantFlagResult(row, col) ==
    IF ~ValidPosition(row, col)
    THEN Same("ValueError")
    ELSE LET app == ListAppend(recently_poked, <<row, col>>)
         IN [Same(app.raised) EXCEPT
                !.board = [board EXCEPT ![<<row, col>>] = FLAG],
                !.flag_count = flag_count + 1,
                !.recently_poked = app.list]

\* Mutant: a flag on a dug cell takes the cell out of dug_count.
PlantFlag_undig(row, col) ==
    LET r == PlantFlagResult(row, col)
    IN /\ board' = r.board
       /\ flag_count' = r.flag_count
       /\ recently_poked' = r.recently_poked
       /\ last' = Call("PlantFlag", row, col, r.ret)
       /\ dug_count' = IF ValidPosition(row, col) /\ IsNum(board[<<row, col>>])
                       THEN dug_count - 1
                       ELSE dug_count
       /\ UNCHANGED <<num_rows, num_cols, mine_positions, num_neighbors,
                      dead, dug_cells, revealed_ever>>

PlantFlag(row, col) ==
    LET r == PlantFlagResult(row, col)
    IN /\ board' = r.board
       /\ flag_count' = r.flag_count
       /\ recently_poked' = r.recently_poked
       /\ last' = Call("PlantFlag", row, col, r.ret)
       /\ UNCHANGED <<num_rows, num_cols, mine_positions, num_neighbors,
                      dug_count, dead, dug_cells, revealed_ever>>

----------------------------------------------------------------------------
\* Mutant: the dead check is missing.
DigRefused_never(row, col) == FALSE

\* Mutant: the dead check comes after the bounds check.
DigRefused_inside(row, col) == dead /\ ValidPosition(row, col)

\* if self.dead: raise ValueError
DigRefused(row, col) == dead

\* Mutant: a dig outside the board reports that no new hole was dug.
DigOutsideReturn_false == "False"

\* What Dig returns for a position outside the board.
DigOutsideReturn == "True"

\* Mutant: a detonation also burns every dug cell.
Detonate_scorched(b, row, col) ==
    [p \in DOMAIN b |-> IF p = <<row, col>> THEN MINE
                        ELSE IF IsNum(b[p]) THEN LAVA ELSE b[p]]

\* Mutant: a dug mine is marked as lava.
Detonate_lava(b, row, col) == [b EXCEPT ![<<row, col>>] = LAVA]

\* self.board[(row, col)] = CellValue.MINE
Detonate(b, row, col) == [b EXCEPT ![<<row, col>>] = MINE]

\* Mutant: no cell counts as an invalid dig.
NotUnknown_never(v) == FALSE

\* Mutant: only a flagged cell counts as an invalid dig.
NotUnknown_flag_only(v) == v = FLAG

\* self.board[(row, col)] != CellValue.UNKNOWN
NotUnknown(v) == v # UNKNOWN

\* self.board[(row, col)] = CellValue.LAVA
Scorch(b, row, col) == [b EXCEPT ![<<row, col>>] = LAVA]

\* Mutant: the worklist loop digs the collected cells but collects no more.
RECURSIVE DigLoop_shallow(_, _, _, _)
DigLoop_shallow(b, dc, seen, to_dig) ==
    IF Len(to_dig) = 0 THEN [board |-> b, dug_count |-> dc]
    ELSE LET n == to_dig[Len(to_dig)]
             rest == SubSeq(to_dig, 1, Len(to_dig) - 1)
         IN IF n \in seen THEN DigLoop_shallow(b, dc, seen, rest)
            ELSE DigLoop_shallow([b EXCEPT ![n] = Num(num_neighbors[n])],
                                 dc + 1, seen \cup {n}, rest)

\* Mutant: the flood fill also collects flagged cells.
HiddenAround_flagged(b, row, col) ==
    SelectSeq(Window(row, col),
              LAMBDA p : ValidPosition(p[1], p[2]) /\ b[p] \in {UNKNOWN, FLAG})

\* The positions of the window of (row, col) that are valid and UNKNOWN in b,
\* in loop order: what the two nested loops append to to_dig.
HiddenAround(b, row, col) ==
    SelectSeq(Window(row, col),
              LAMBDA p : ValidPosition(p[1], p[2]) /\ b[p] = UNKNOWN)

\* Mutant: the worklist loop without its seen set.
RECURSIVE DigLoop_no_seen(_, _, _, _)
DigLoop_no_seen(b, dc, seen, to_dig) ==
    IF Len(to_dig) = 0 THEN [board |-> b, dug_count |-> dc]
    ELSE LET n == to_dig[Len(to_dig)]
             rest == SubSeq(to_dig, 1, Len(to_dig) - 1)
             nneigh == num_neighbors[n]
             b2 == [b EXCEPT ![n] = Num(nneigh)]
         IN DigLoop_no_seen(b2, dc + 1, seen,
                            IF nneigh = 0
                            THEN rest \o HiddenAround(b2, n[1], n[2])
                            ELSE rest)

\* Mutant: the worklist loop goes on from every cell it digs, not only
\* from those with no mine around.
RECURSIVE DigLoop_expand_all(_, _, _, _)
DigLoop_expand_all(b, dc, seen, to_dig) ==
    IF Len(to_dig) = 0 THEN [board |-> b, dug_count |-> dc]
    ELSE LET n == to_dig[Len(to_dig)]
             rest == SubSeq(to_dig, 1, Len(to_dig) - 1)
         IN IF n \in seen THEN DigLoop_expand_all(b, dc, seen, rest)
            ELSE LET nneigh == num_neighbors[n]
                     b2 == [b EXCEPT ![n] = Num(nneigh)]
                 IN DigLoop_expand_all(b2, dc + 1, seen \cup {n},
                                       rest \o HiddenAround(b2, n[1], n[2]))

\* The while loop over the worklist to_dig (a stack: pop() takes the end).
RECURSIVE DigLoop(_, _, _, _)
DigLoop(b, dc, seen, to_dig) ==
    IF Len(to_dig) = 0 THEN [board |-> b, dug_count |-> dc]
    ELSE LET n == to_dig[Len(to_dig)]
             rest == SubSeq(to_dig, 1, Len(to_dig) - 1)
         IN IF n \in seen THEN DigLoop(b, dc, seen, rest)
            ELSE LET nneigh == num_neighbors[n]
                     b2 == [b EXCEPT ![n] = Num(nneigh)]
                 IN DigLoop(b2, dc + 1, seen \cup {n},
                            IF nneigh = 0
                            THEN rest \o HiddenAround(b2, n[1], n[2])
                            ELSE rest)

\* Mutant: the dug cell is not counted.
DigFresh_uncounted(row, col) ==
    LET neighbors == num_neighbors[<<row, col>>]
        b1 == [board EXCEPT ![<<row, col>>] = Num(neighbors)]
        filled == IF neighbors = 0
                  THEN DigLoop(b1, dug_count, {}, HiddenAround(b1, row, col))
                  ELSE [board |-> b1, dug_count |-> dug_count]
    IN [board |-> filled.board, dug_count |-> filled.dug_count]

\* Mutant: the dug cell is counted but nothing around it is dug.
DigFresh_target_only(row, col) ==
    LET neighbors == num_neighbors[<<row, col>>]
    IN [board |-> [board EXCEPT ![<<row, col>>] = Num(neighbors)],
        dug_count |-> dug_count + 1]

\* The successful branch of Dig up to and including the last dug_count += 1.
DigFresh(row, col) ==
    LET neighbors == num_neighbors[<<row, col>>]
        b1 == [board EXCEPT ![<<row, col>>] = Num(neighbors)]
        filled == IF neighbors = 0
                  THEN DigLoop(b1, dug_count, {}, HiddenAround(b1, row, col))
                  ELSE [board |-> b1, dug_count |-> dug_count]
    IN [board |-> filled.board, dug_count |-> filled.dug_count + 1]

\* Mutant: a win leaves the mines as they are.
FlagMinesIfWon_never(b, dc) == b

\* Mutant: every surviving dig flags the mines, won or not.
FlagMinesIfWon_always(b, dc) ==
    [p \in DOMAIN b |-> IF p \in mine_positions THEN FLAG ELSE b[p]]

\* if self.Won(): every mine position is set to FLAG.
FlagMinesIfWon(b, dc) ==
    IF WonWith(b, dc)
    THEN [p \in DOMAIN b |-> IF p \in mine_positions THEN FLAG ELSE b[p]]
    ELSE b

\* Dig(row, col): the branches in the order of the code.
DigResult(row, col) ==
    IF DigRefused(row, col) THEN Same("ValueError")
    ELSE IF ~ValidPosition(row, col) THEN Same(DigOutsideReturn)
    ELSE IF <<row, col>> \in mine_positions
    THEN [Same("False") EXCEPT !.board = Detonate(board, row, col), !.dead = TRUE]
    ELSE IF NotUnknown(board[<<row, col>>])
    THEN [Same("False") EXCEPT !.board = Scorch(board, row, col), !.dead = TRUE]
    ELSE LET d == DigFresh(row, col)
         IN [Same("True") EXCEPT
                !.board = FlagMinesIfWon(d.board, d.dug_count),
                !.dug_count = d.dug_count,
                !.recently_poked =
                    ListAppend(recently_poked, << <<row, col>> >>).list]

Dig(row, col) ==
    LET r == DigResult(row, col)
    IN /\ board' = r.board
       /\ dead' = r.dead
       /\ dug_count' = r.dug_count
       /\ recently_poked' = r.recently_poked
       /\ last' = Call("Dig", row, col, r.ret)
       /\ dug_cells' = IF r.ret \in {"True", "False"} /\ ValidPosition(row, col)
                       THEN dug_cells \cup {<<row, col>>}
                       ELSE dug_cells
       /\ revealed_ever' = revealed_ever \cup
              {p \in Cells : ~IsNum(board[p]) /\ IsNum(r.board[p])}
       /\ UNCHANGED <<num_rows, num_cols, mine_positions, num_neighbors, flag_count>>

----------------------------------------------------------------------------
\* range(lo, hi) as a sequence.
RECURSIVE RangeSeq(_, _)
RangeSeq(lo, hi) == IF lo >= hi THEN <<>> ELSE <<lo>> \o RangeSeq(lo + 1, hi)

\* The list built by the two nested loops of Neighborhood over rows rs and
\* columns cs, from its i-th element on.
RECURSIVE NeighborhoodVals(_, _, _)
NeighborhoodVals(rs, cs, i) ==
    IF i > Len(rs) * Len(cs) THEN <<>>
    ELSE LET drow == rs[((i - 1) \div Len(cs)) + 1]
             dcol == cs[((i - 1) % Len(cs)) + 1]
             v == IF ValidPosition(drow, dcol)
                  THEN CellInt(board[<<drow, dcol>>])
                  ELSE CellInt(OUT_OF_BOUNDS)
         IN <<v>> \o NeighborhoodVals(rs, cs, i + 1)

\* The list Neighborhood(row, col, radius) returns.
NeighborhoodList(row, col, radius) ==
    NeighborhoodVals(RangeSeq(row - radius, row + radius + 1),
                     RangeSeq(col - radius, col + radius + 1), 1)

\* Neighborhood(row, col, radius): a query; the list it returns is
\* NeighborhoodList(row, col, radius).
Neighborhood(row, col, radius) ==
    /\ last' = Call("Neighborhood", 0, 0, "list")
    /\ UNCHANGED <<game, dug_cells, revealed_ever>>

\* Print(include_ticks): writes to stdout, then self.recently_poked = [].
PrintBoard ==
    /\ recently_poked' = <<>>
    /\ last' = Call("Print", 0, 0, "None")
    /\ UNCHANGED <<num_rows, num_cols, mine_positions, num_neighbors, board,
                   dug_count, flag_count, dead, dug_cells, revealed_ever>>

\* AsEmoji(): builds and returns a string.
AsEmoji ==
    /\ last' = Call("AsEmoji", 0, 0, "str")
    /\ UNCHANGED <<game, dug_cells, revealed_ever>>

----------------------------------------------------------------------------
\* Positions outside the board, one beyond each of its four edges.
Outside == {<<-1, 0>>, <<num_rows, 0>>, <<0, -1>>, <<0, num_cols>>}

\* The positions a caller passes.
Coords == Cells \cup Outside

\* The caller makes one more call.
OneMoreCall ==
    calls < MaxCalls /\ calls' = calls + 1 /\ UNCHANGED <<rng, ctor, first, job>>

DigStep == OneMoreCall /\ \E p \in Coords : Dig(p[1], p[2])

PlantFlagStep == OneMoreCall /\ \E p \in Coords : PlantFlag(p[1], p[2])

NeighborhoodStep ==
    OneMoreCall /\ \E p \in Coords, radius \in 0 .. MaxRadius :
        Neighborhood(p[1], p[2], radius)

PrintStep == OneMoreCall /\ PrintBoard

AsEmojiStep == OneMoreCall /\ AsEmoji

Next ==
    \/ DigStep
    \/ PlantFlagStep
    \/ NeighborhoodStep
    \/ PrintStep
    \/ AsEmojiStep

Spec == Init /\ [][Next]_vars

----------------------------------------------------------------------------
(***************************************************************************)
(* Construction.  The generator of module random is one process-wide       *)
(* object: a state, a deterministic step, and draws that are a function of *)
(* the state.  The model keeps that shape with RngSize states.             *)
(***************************************************************************)
RngStates == 0 .. RngSize - 1

\* The seed argument: <<>> is None, <<s>> the int s.
Seeds == {<<>>} \cup {<<sd>> : sd \in 0 .. MaxSeed}

\* Mutant: the constructor leaves the generator as it finds it.
RandomSeed_skipped(seed, g) == {g}

\* random.seed(seed): the states the generator may be in afterwards.  An int
\* seed fixes the state; None seeds from the clock or the system's entropy.
RandomSeed(seed, g) ==
    IF seed = <<>> THEN RngStates ELSE {seed[1] % RngSize}

\* One draw below n, and the generator's state after a draw.
RandBelow(g, n) == g % n

Advance(g) == (g + 1) % RngSize

\* [(row, col) for row in range(num_rows) for col in range(num_cols)]
Population(rows, cols) ==
    [i \in 1 .. rows * cols |-> <<(i - 1) \div cols, (i - 1) % cols>>]

\* The selection loop of random.sample over a pool of n entries: the entry
\* drawn is taken and its slot refilled from the end of the live part.
RECURSIVE SampleLoop(_, _, _, _, _, _)
SampleLoop(g, pool, n, k, i, result) ==
    IF i = k THEN [ret |-> "list", result |-> result, rng |-> g]
    ELSE LET j == RandBelow(g, n - i)
         IN SampleLoop(Advance(g), [pool EXCEPT ![j + 1] = pool[n - i]],
                       n, k, i + 1, Append(result, pool[j + 1]))

\* random.sample(population, k): ValueError unless 0 <= k <= len(population).
RandomSample(g, population, k) ==
    IF ~(0 <= k /\ k <= Len(population))
    THEN [ret |-> "ValueError", result |-> <<>>, rng |-> g]
    ELSE SampleLoop(g, population, Len(population), k, 0, <<>>)

\* Mutant: only num_rows and num_mines are checked.
BadArgs_rows_only(rows, cols, num_mines) == rows < 1 \/ num_mines < 0

\* The three argument checks at the top of __init__.
BadArgs(rows, cols, num_mines) == rows < 1 \/ cols < 1 \/ num_mines < 0

\* How __init__ ends with the generator in state g after random.seed: the
\* argument checks raise first, random.sample may raise after them.
Outcome(rows, cols, num_mines, g) ==
    IF BadArgs(rows, cols, num_mines) THEN "ValueError"
    ELSE IF RandomSample(g, Population(rows, cols), num_mines).ret = "ValueError"
         THEN "ValueError"
         ELSE "game"

\* The constructor call raised: no game is returned, the caller keeps the
\* game it has.
Raised ==
    /\ ctor' = [ctor EXCEPT !.ret = "ValueError"]
    /\ UNCHANGED game

\* The game the caller holds, as it was built.
Built ==
    [num_rows |-> num_rows, num_cols |-> num_cols, num_mines |-> ctor.num_mines,
     seed |-> ctor.seed, mine_positions |-> mine_positions,
     num_neighbors |-> num_neighbors]

\* MinesweeperGame(num_rows, num_cols, num_mines, seed); the game returned
\* replaces the one the caller holds, which may be the one kept in first.
Construct(rows, cols, n, seed) ==
    /\ \E g \in RandomSeed(seed, rng) :
          IF Outcome(rows, cols, n, g) = "ValueError"
          THEN Raised /\ rng' = (IF BadArgs(rows, cols, n) THEN rng ELSE g)
          ELSE LET s == RandomSample(g, Population(rows, cols), n)
                   mines == {s.result[i] : i \in 1 .. Len(s.result)}
               IN /\ num_rows' = rows
                  /\ num_cols' = cols
                  /\ dead' = FALSE
                  /\ rng' = s.rng
                  /\ mine_positions' = mines
                  /\ num_neighbors' =
                         CountNeighbors([p \in Grid(rows, cols) |-> 0],
                                        rows, cols, mines)
                  /\ board' = [p \in Grid(rows, cols) |-> UNKNOWN]
                  /\ dug_count' = 0
                  /\ flag_count' = 0
                  /\ recently_poked' = <<>>
                  /\ ctor' = Construction(rows, cols, n, seed, "game")
    /\ first' \in {first} \cup (IF ctor.seed # <<>> THEN {Built} ELSE {})
    /\ UNCHANGED <<calls, last, dug_cells, revealed_ever, job>>

\* The arguments a caller passes: every shape within the bounds, a zero and
\* a negative among them, and one mine more than the board has cells.
ConstructStep ==
    \E rows \in 0 .. MaxRows, cols \in 0 .. MaxCols, seed \in Seeds :
        /\ rows * cols <= MaxCells
        /\ \E n \in (-1 .. MaxMines) \cup {rows * cols + 1} :
              Construct(rows, cols, n, seed)

\* random.random() between two constructions.
RandomDrawStep ==
    /\ rng' = Advance(rng)
    /\ UNCHANGED <<game, calls, last, dug_cells, revealed_ever, ctor, first, job>>

NextNew ==
    \/ ConstructStep
    \/ RandomDrawStep

SpecNew == Init /\ [][NextNew]_vars

----------------------------------------------------------------------------
(***************************************************************************)
(* DeepMine.PlayGame: one pass of the while loop per step.  The miner      *)
(* picks best_spot among the cells of the board by MineProbability, which  *)
(* is any function of the neighborhoods.                                   *)
(***************************************************************************)
PlayGame ==
    /\ ~Dead /\ ~Won
    /\ \E best_spot \in Cells :
          LET br == best_spot[1]
              bc == best_spot[2]
              result == DigResult(br, bc)
          IN /\ board' = result.board
             /\ dead' = result.dead
             /\ dug_count' = result.dug_count
             /\ recently_poked' = <<>>
             /\ last' = Call("Dig", br, bc, result.ret)
             /\ dug_cells' = dug_cells \cup {best_spot}
             /\ revealed_ever' = revealed_ever \cup
                    {p \in Cells : ~IsNum(board[p]) /\ IsNum(result.board[p])}
    /\ calls' = calls + 1
    /\ UNCHANGED <<num_rows, num_cols, mine_positions, num_neighbors, flag_count,
                   rng, ctor, first, job>>

NextPlay == PlayGame

\* A pass of the loop seen from its header: the loop condition holds and the
\* move counter advances.  Within NextPlay these are exactly the PlayGame steps.
LoopPass == ~Dead /\ ~Won /\ calls' = calls + 1

\* The loop is sequential code: while its condition holds, the next pass runs.
SpecPlay == Init /\ [][NextPlay]_vars /\ WF_calls(LoopPass)

----------------------------------------------------------------------------
(***************************************************************************)
(* The bots.  tweet_mine and masto_mine keep the moves of a game as rows   *)
(* of a table and, on each run, replay them on a new Beginner game in      *)
(* load_game_state.  One step handles one fetched row (one pass of the     *)
(* for loop); the rows are whatever the table holds, so each is drawn when *)
(* it is fetched.  Beginner is 8x8 with 10 mines; here it is any board of  *)
(* the model that has a cell without a mine.                               *)
(***************************************************************************)
Beginner == NumMinesTotal < num_rows * num_cols

\* class Command, and a command text that is none of its names.
Command == {"NEW", "DIG", "FLAG"}

CommandTexts == Command \cup {"BOGUS"}

\* apply_move: the outcome of the call it makes.
ApplyMoveRet(cmd, row, col) ==
    IF cmd = "DIG" THEN DigResult(row, col).ret
    ELSE IF cmd = "FLAG" THEN PlantFlagResult(row, col).ret
    ELSE "ValueError"

\* apply_move: what it does to the game.
ApplyMove(cmd, row, col) ==
    IF cmd = "DIG" THEN Dig(row, col)
    ELSE IF cmd = "FLAG" THEN PlantFlag(row, col)
    ELSE UNCHANGED <<game, last, dug_cells, revealed_ever>>

\* The call ended in an exception.
IsError(ret) == ret \in {"ValueError", "TypeError"}

\* The row checks both bots make before a row is replayed: the exception
\* raised, "continue" for a well-formed move 0, "apply" for a move to replay.
RowCheck(expected_move_id, r) ==
    IF r.move_id # expected_move_id THEN "ValueError"
    ELSE IF r.cmd \notin Command THEN "ValueError"
    ELSE IF r.move_id = 0
         THEN (IF r.cmd # "NEW" THEN "ValueError" ELSE "continue")
    ELSE "apply"

\* load_game_state leaves by an exception.
Raise(r, err) ==
    job' = [job EXCEPT !.pc = "raised", !.step = "row", !.row = r, !.err = err]

\* The for loop goes on to the next row.
NextRow(r) ==
    job' = [job EXCEPT !.step = "row", !.row = r, !.expected = @ + 1]

\* tweet_mine: the rows the table may hold at position expected.  They come
\* ordered by move_id; nothing else is constrained.
RowsAt(expected) ==
    {Row(m, c, p[1], p[2]) :
        m \in {x \in (expected - 1) .. (expected + 1) : x >= 0},
        c \in CommandTexts, p \in Coords}

\* Mutant: only death ends a game on file.
EndedCheck_dead_only(d, w) == IF d THEN "RuntimeError" ELSE "ok"

\* tweet_mine: the two checks after a replayed move.
EndedCheck(d, w) ==
    IF d THEN "RuntimeError" ELSE IF w THEN "RuntimeError" ELSE "ok"

\* tweet_mine.load_game_state: one pass of the loop over the fetched rows.
TweetRow ==
    /\ job.pc = "loop"
    /\ job.expected < MaxMoves
    /\ \E r \in RowsAt(job.expected) :
          LET check == RowCheck(job.expected, r)
          IN IF check = "ValueError"
             THEN Raise(r, check) /\ UNCHANGED <<game, last, dug_cells, revealed_ever>>
             ELSE IF check = "continue"
             THEN NextRow(r) /\ UNCHANGED <<game, last, dug_cells, revealed_ever>>
             ELSE /\ ApplyMove(r.cmd, r.row, r.col)
                  /\ LET ret == ApplyMoveRet(r.cmd, r.row, r.col)
                         ended == EndedCheck(dead', Won')
                     IN IF IsError(ret) THEN Raise(r, ret)
                        ELSE IF ended # "ok" THEN Raise(r, ended)
                        ELSE NextRow(r)
    /\ UNCHANGED <<calls, rng, ctor, first>>

\* tweet_mine.load_game_state: the rows are exhausted; return (move_id + 1,
\* tw_id), where move_id is unbound when there was no row.
TweetReturn ==
    /\ job.pc = "loop"
    /\ job' = IF job.expected = 0
              THEN [job EXCEPT !.pc = "raised", !.step = "end",
                               !.err = "UnboundLocalError"]
              ELSE [job EXCEPT !.pc = "returned", !.step = "end",
                               !.ret_move_id = job.row.move_id + 1]
    /\ UNCHANGED <<game, calls, last, dug_cells, revealed_ever, rng, ctor, first>>

NextTweet ==
    \/ TweetRow
    \/ TweetReturn

\* main builds the Beginner game the history is replayed on.
InitBot == Init /\ Beginner

SpecTweet == InitBot /\ [][NextTweet]_vars

\* Mutant: only death rolls the game over.
Finished_dead_only(d, w) == d

\* masto_mine: game.Dead() or game.Won()
Finished(d, w) == d \/ w

\* masto_mine: the rows the games table may hold at position expected.  The
\* key makes the move_ids of a game distinct, the CHECKs keep the command a
\* Command and the gridpoints on the Beginner board.
MastoRowsAt(expected) ==
    {Row(m, c, p[1], p[2]) :
        m \in expected .. (expected + 1), c \in Command, p \in Cells}

\* masto_mine.load_game_state: one pass of the loop over the rows of the
\* latest game.  The first row fixes game_id and builds the game; no row
\* after move 0 may be NEW.
MastoRow ==
    /\ job.pc = "loop"
    /\ job.expected < MaxMoves
    /\ \E r \in MastoRowsAt(job.expected), row_game_id \in 1 .. MaxGames :
          LET check == RowCheck(job.expected, r)
              gid == IF job.game_id = 0 THEN row_game_id ELSE job.game_id
              raise(err) == job' = [job EXCEPT !.pc = "raised", !.step = "row",
                                              !.row = r, !.err = err,
                                              !.game_id = gid]
              next == job' = [job EXCEPT !.step = "row", !.row = r,
                                         !.expected = @ + 1, !.game_id = gid]
          IN /\ row_game_id = gid
             /\ IF check = "ValueError"
                THEN raise(check) /\ UNCHANGED <<game, last, dug_cells, revealed_ever>>
                ELSE IF check = "continue"
                THEN next /\ UNCHANGED <<game, last, dug_cells, revealed_ever>>
                ELSE IF r.cmd = "NEW"
                THEN raise("AssertionError")
                     /\ UNCHANGED <<game, last, dug_cells, revealed_ever>>
                ELSE /\ ApplyMove(r.cmd, r.row, r.col)
                     /\ LET ret == ApplyMoveRet(r.cmd, r.row, r.col)
                        IN IF IsError(ret) THEN raise(ret) ELSE next
    /\ UNCHANGED <<calls, rng, ctor, first>>

\* MinesweeperGame.Beginner(seed=game_seed(db_filename, game_id)) with the
\* game_id of the game just replayed: the same seed, so the same mines.
Rollover ==
    /\ dead' = FALSE
    /\ board' = [p \in Cells |-> UNKNOWN]
    /\ dug_count' = 0
    /\ flag_count' = 0
    /\ recently_poked' = <<>>
    /\ last' = NoCall
    /\ dug_cells' = {}
    /\ revealed_ever' = {}
    /\ UNCHANGED <<num_rows, num_cols, mine_positions, num_neighbors>>

\* masto_mine.load_game_state: after the loop.
MastoReturn ==
    /\ job.pc = "loop"
    /\ IF job.expected = 0
       THEN /\ job' = [job EXCEPT !.pc = "returned", !.step = "end",
                                  !.ret_game_id = 1, !.ret_move_id = -1]
            /\ UNCHANGED <<game, last, dug_cells, revealed_ever>>
       ELSE IF Finished(Dead, Won)
       THEN /\ job' = [job EXCEPT !.pc = "returned", !.step = "end",
                                  !.ret_game_id = job.game_id + 1,
                                  !.ret_move_id = -1]
            /\ Rollover
       ELSE /\ job' = [job EXCEPT !.pc = "returned", !.step = "end",
                                  !.ret_game_id = job.game_id,
                                  !.ret_move_id = job.row.move_id]
            /\ UNCHANGED <<game, last, dug_cells, revealed_ever>>
    /\ UNCHANGED <<calls, rng, ctor, first>>

\* masto_mine.calculate_next_move: NEW for a game with no move yet, else a
\* random DIG or FLAG somewhere on the board.
CalculateNextMove(move_id) ==
    IF move_id = -1
    THEN {Row(move_id + 1, "NEW", 0, 0)}
    ELSE {Row(move_id + 1, c, p[1], p[2]) : c \in {"DIG", "FLAG"}, p \in Cells}

\* masto_mine.main after load_game_state: pick the move of this run and
\* apply it unless it is NEW.
MastoMove ==
    /\ job.pc = "returned"
    /\ \E m \in CalculateNextMove(job.ret_move_id) :
          /\ IF m.cmd # "NEW"
             THEN ApplyMove(m.cmd, m.row, m.col)
             ELSE UNCHANGED <<game, last, dug_cells, revealed_ever>>
          /\ job' = [job EXCEPT !.pc = "moved", !.step = "move", !.row = m]
    /\ UNCHANGED <<calls, rng, ctor, first>>

NextMasto ==
    \/ MastoRow
    \/ MastoReturn
    \/ MastoMove

SpecMasto == InitBot /\ [][NextMasto]_vars

----------------------------------------------------------------------------
(***************************************************************************)
(* Properties.                                                             *)
(***************************************************************************)

\* The step is a call of Dig / PlantFlag at position p.
DigCalled(p) ==
    calls' = calls + 1 /\ last'.op = "Dig" /\ last'.row = p[1] /\ last'.col = p[2]

PlantFlagCalled(p) ==
    calls' = calls + 1 /\ last'.op = "PlantFlag" /\ last'.row = p[1] /\ last'.col = p[2]

\* The game's own state is left as it was.
GameUnchanged ==
    /\ board' = board
    /\ dug_count' = dug_count
    /\ flag_count' = flag_count
    /\ dead' = dead
    /\ recently_poked' = recently_poked

\* p and q are distinct cells within one step of each other in each direction.
MooreAdjacent(p, q) ==
    /\ p # q
    /\ p[1] - q[1] \in {-1, 0, 1}
    /\ p[2] - q[2] \in {-1, 0, 1}

\* The cells reachable from the cells of S by chains of adjacent steps in
\* which every cell stepped from is a zero-neighbor cell that is Hidden.
RECURSIVE ChainFrom(_)
ChainFrom(S) ==
    LET more == {q \in Cells : \E x \in S : /\ num_neighbors[x] = 0
                                            /\ board[x] = UNKNOWN
                                            /\ MooreAdjacent(x, q)}
    IN IF more \subseteq S THEN S ELSE ChainFrom(S \cup more)

\* C1: a Dig on a live board at a Hidden non-mine cell c with no neighboring
\* mine turns into numbers exactly the Hidden cells of the chain from c (c
\* and the cells reached through Hidden zero-neighbor cells); every cell of
\* the chain that is not Flagged ends as its neighbor count, and every
\* Flagged cell stays Flagged.
C1_FloodFill ==
    [][\A c \in Cells :
          (/\ DigCalled(c)
           /\ ~dead
           /\ board[c] = UNKNOWN
           /\ c \notin mine_positions
           /\ num_neighbors[c] = 0)
          => LET chain == ChainFrom({c})
             IN /\ {x \in Cells : ~IsNum(board[x]) /\ IsNum(board'[x])}
                       = {x \in chain : board[x] = UNKNOWN}
                /\ \A x \in chain :
                       board[x] # FLAG => board'[x] = Num(num_neighbors[x])
                /\ \A x \in Cells : board[x] = FLAG => board'[x] = FLAG]_vars

\* C1 witness: the only Dig so far hit a zero cell next to a Flagged cell,
\* the flag is still there, and the fill reached a cell two steps away.
C1_Witness ==
    /\ ValidPosition(last.row, last.col)
    /\ last.op = "Dig" /\ last.ret = "True"
    /\ dug_cells = {<<last.row, last.col>>}
    /\ board[<<last.row, last.col>>] = Num(0)
    /\ \E f \in Cells : board[f] = FLAG /\ MooreAdjacent(f, <<last.row, last.col>>)
    /\ \E x \in Cells : /\ IsNum(board[x])
                        /\ x # <<last.row, last.col>>
                        /\ ~MooreAdjacent(x, <<last.row, last.col>>)

\* C2: a Dig on a live board at a non-mine cell that is not Hidden leaves the
\* cell LAVA, the game dead and returns False; and after a Dig at a cell that
\* was dug before, the game is dead.
C2_InvalidRedig ==
    [][\A c \in Cells :
          DigCalled(c) =>
              /\ (~dead /\ c \notin mine_positions /\ board[c] # UNKNOWN)
                     => (board'[c] = LAVA /\ dead' /\ last'.ret = "False")
              /\ c \in dug_cells => dead']_vars

\* C2 witness: a cell that the flood fill revealed was dug and is now LAVA.
C2_Witness ==
    /\ ValidPosition(last.row, last.col)
    /\ last.op = "Dig" /\ last.ret = "False" /\ dead
    /\ board[<<last.row, last.col>>] = LAVA
    /\ <<last.row, last.col>> \in revealed_ever
    /\ \E c \in dug_cells : c # <<last.row, last.col>> /\ board[c] = Num(0)

\* C3: a Dig on a live board at a mine, Hidden or Flagged, marks that cell
\* MINE, kills the game, returns False and changes no other cell, nor
\* dug_count, nor flag_count.
C3_MineReveal ==
    [][\A c \in Cells :
          (DigCalled(c) /\ ~dead /\ c \in mine_positions)
          => /\ board[c] \in {UNKNOWN, FLAG}
             /\ board' = [board EXCEPT ![c] = MINE]
             /\ dead'
             /\ last'.ret = "False"
             /\ dug_count' = dug_count
             /\ flag_count' = flag_count]_vars

\* C3 witness: the mine was flagged by the first call and dug by the second.
C3_Witness ==
    /\ ValidPosition(last.row, last.col)
    /\ calls = 2 /\ flag_count = 1
    /\ last.op = "Dig" /\ last.ret = "False" /\ dead
    /\ <<last.row, last.col>> \in mine_positions
    /\ board[<<last.row, last.col>>] = MINE
    /\ \A x \in Cells : board[x] # FLAG

C5_WinDetection ==
    /\ Won <=> (revealed_ever = Cells \ mine_positions)
    /\ dug_count = Cardinality(revealed_ever)
    /\ revealed_ever \subseteq Cells \ mine_positions
    /\ Won <=> (num_rows * num_cols - dug_count = Cardinality(mine_positions))
    /\ ((\A m \in mine_positions : board[m] = FLAG)
        /\ (\E x \in Cells \ mine_positions : board[x] = UNKNOWN)) => ~Won
    /\ (~dead /\ dug_count = num_rows * num_cols - Cardinality(mine_positions)) => Won

\* C5 witness: every mine has been flagged by the caller, a cell has been
\* dug, a non-mine cell is still Hidden and the game is not won.
C5_Witness ==
    /\ mine_positions # {}
    /\ flag_count = Cardinality(mine_positions)
    /\ \A m \in mine_positions : board[m] = FLAG
    /\ dug_count > 0
    /\ \E x \in Cells \ mine_positions : board[x] = UNKNOWN
    /\ ~dead /\ ~Won

\* C6: once dead, the game stays dead, dug_count stays as it is and no cell
\* turns into a number.
C6_DeathIsPermanent ==
    [][dead => /\ dead'
               /\ dug_count' = dug_count
               /\ \A x \in Cells : IsNum(board'[x]) => board'[x] = board[x]]_vars

\* C6 witness: a flag was planted on a dead game that had dug a cell before.
C6_Witness ==
    /\ dead /\ dug_count > 0
    /\ last.op = "PlantFlag" /\ last.ret = "TypeError"
    /\ \E x \in Cells : board[x] \in {MINE, LAVA}

\* C7: a Dig on a dead game raises ValueError for every position, inside or
\* outside the board, and leaves the game as it was.
C7_RevealAfterDeath ==
    [][\A p \in Coords :
          (DigCalled(p) /\ dead) => (last'.ret = "ValueError" /\ GameUnchanged)]_vars

\* C7 witness: a Dig outside the board of a dead game raised ValueError.
C7_Witness ==
    /\ dead
    /\ last.op = "Dig" /\ last.ret = "ValueError"
    /\ ~ValidPosition(last.row, last.col)

C9_AsClaimed ==
    [][\A c \in Cells :
          PlantFlagCalled(c)
          => /\ last'.ret = "None"
             /\ board'[c] = FLAG
             /\ flag_count' = flag_count + 1
             /\ recently_poked' = Append(recently_poked, c)]_vars

\* C10: PlantFlag outside the board raises ValueError and leaves the game as
\* it was.
C10_OutOfBoundsFlag ==
    [][\A p \in Coords :
          (PlantFlagCalled(p) /\ ~ValidPosition(p[1], p[2]))
          => (last'.ret = "ValueError" /\ GameUnchanged)]_vars

\* C10 witness: PlantFlag outside a board that has a dug cell raised
\* ValueError.
C10_Witness ==
    /\ dug_count > 0
    /\ last.op = "PlantFlag" /\ last.ret = "ValueError"
    /\ ~ValidPosition(last.row, last.col)

\* C11: PlantFlag at any position leaves dead, Won(), dug_count,
\* mine_positions and every cell other than the flagged one as they were.
C11_FlagKeepsOutcome ==
    [][\A p \in Coords :
          PlantFlagCalled(p)
          => /\ dead' = dead
             /\ Won' = Won
             /\ dug_count' = dug_count
             /\ mine_positions' = mine_positions
             /\ \A x \in Cells \ {p} : board'[x] = board[x]]_vars

\* C11 witness: a flag was planted on a dug cell of a won game, and the game
\* is still won.
C11_Witness ==
    /\ last.op = "PlantFlag" /\ last.ret = "TypeError"
    /\ ValidPosition(last.row, last.col)
    /\ <<last.row, last.col>> \in revealed_ever
    /\ board[<<last.row, last.col>>] = FLAG
    /\ Won /\ ~dead

\* The mines among the up-to-8 neighbors of cell c.
MinesAround(c) == {m \in mine_positions : MooreAdjacent(c, m)}

\* C12 as claimed: for every cell c, mines included, num_neighbors[c] is the
\* number of mines among c's neighbors, c itself not counted.
C12_AsClaimed ==
    \A c \in Cells : num_neighbors[c] = Cardinality(MinesAround(c))

\* C17: when the first call on a new board without mines is a Dig at a cell
\* of the board, it returns True and leaves every cell dug, dug_count at
\* rows*cols and the game won.
C17_NoMinesFirstDig ==
    (/\ mine_positions = {}
     /\ calls = 1
     /\ last.op = "Dig"
     /\ ValidPosition(last.row, last.col))
    => /\ last.ret = "True"
       /\ \A x \in Cells : board[x] = Num(0)
       /\ dug_count = num_rows * num_cols
       /\ Won /\ ~dead

\* C17 witness: the first call dug a corner of a 2x3 board without mines.
C17_Witness ==
    /\ mine_positions = {} /\ num_rows = 2 /\ num_cols = 3
    /\ calls = 1 /\ last.op = "Dig" /\ last.row = 0 /\ last.col = 0
    /\ dug_count = 6

\* C18 as claimed: a Dig on a live game returns True exactly when it dug a
\* new hole (dug_count grew) and the game is alive afterwards.
C18_AsClaimed ==
    [][\A p \in Coords :
          (DigCalled(p) /\ ~dead)
          => ((last'.ret = "True") <=> (dug_count' > dug_count /\ ~dead'))]_vars

\* C20 as claimed: dug_count + flag_count never exceeds rows*cols.
C20_AsClaimed == dug_count + flag_count <= num_rows * num_cols

\* C13: the mines are exactly num_mines distinct cells of the board, and no
\* call of Dig, PlantFlag, Neighborhood, Print or AsEmoji changes
\* mine_positions or num_neighbors.
C13_MinesFixed ==
    /\ [](/\ Cardinality(mine_positions) = ctor.num_mines
          /\ mine_positions \subseteq Cells)
    /\ [][calls' = calls + 1
            => /\ mine_positions' = mine_positions
               /\ num_neighbors' = num_neighbors]_vars

C13_Witness ==
    /\ calls = MaxCalls
    /\ mine_positions # {}
    /\ dug_count > 0
    /\ flag_count > 0
    /\ last.op = "Print"

\* C14: a game built with an int seed has the mine positions and the
\* neighbour counts of any earlier game built with the same num_rows,
\* num_cols, num_mines and seed, whatever was built or drawn in between.
C14_SeedDeterminism ==
    (/\ first # <<>>
     /\ ctor.seed # <<>>
     /\ first.num_rows = num_rows
     /\ first.num_cols = num_cols
     /\ first.num_mines = ctor.num_mines
     /\ first.seed = ctor.seed)
    => /\ first.mine_positions = mine_positions
       /\ first.num_neighbors = num_neighbors

C14_Witness ==
    /\ first # <<>>
    /\ ctor.seed # <<>>
    /\ ctor.ret = "game"
    /\ first = Built
    /\ mine_positions # {}
    /\ rng # Advance(ctor.seed[1] % RngSize)

\* C15: the constructor raises exactly when num_rows < 1, num_cols < 1,
\* num_mines < 0 or num_mines > num_rows * num_cols, and then returns no
\* game; otherwise it returns a game of the given shape with every cell
\* UNKNOWN, dug_count 0, flag_count 0 and dead False.
C15_ConstructorChecks ==
    /\ [](\A rows \in 0 .. MaxRows, cols \in 0 .. MaxCols, seed \in Seeds :
            \A n \in (-1 .. MaxMines) \cup {rows * cols + 1} :
               \A g \in RandomSeed(seed, rng) :
                  (Outcome(rows, cols, n, g) = "ValueError")
                  <=> (rows < 1 \/ cols < 1 \/ n < 0 \/ n > rows * cols))
    /\ [][ctor'.ret = "ValueError" => UNCHANGED game]_vars
    /\ [][(ctor'.ret = "game" /\ <<game, ctor>>' # <<game, ctor>>)
            => /\ num_rows' = ctor'.num_rows
               /\ num_cols' = ctor'.num_cols
               /\ DOMAIN board' = Grid(ctor'.num_rows, ctor'.num_cols)
               /\ \A p \in DOMAIN board' : board'[p] = UNKNOWN
               /\ dug_count' = 0
               /\ flag_count' = 0
               /\ dead' = FALSE]_vars

C15_Witness ==
    /\ ctor.ret = "ValueError"
    /\ rng # 0
    /\ first # <<>>
    /\ num_rows = 2
    /\ num_cols = 3

\* The code Neighborhood reports for position p.
ExpectedCode(p) ==
    IF ~ValidPosition(p[1], p[2]) THEN -3
    ELSE IF board[p] = UNKNOWN THEN -1
    ELSE IF board[p] = FLAG THEN -2
    ELSE IF board[p] = MINE THEN -4
    ELSE IF board[p] = LAVA THEN -5
    ELSE num_neighbors[p]

\* C16: Neighborhood(row, col, radius) returns (2*radius+1)^2 codes, row by
\* row over the window around (row, col): the count of a dug cell, -1 for
\* UNKNOWN, -2 for FLAG, -3 outside the board, -4 for MINE, -5 for LAVA; and
\* the call changes nothing of the game.
C16_NeighborhoodCodes ==
    /\ [](last.op = "Neighborhood"
          => \A p \in Coords, radius \in 0 .. MaxRadius :
                LET w == 2 * radius + 1
                    vals == NeighborhoodList(p[1], p[2], radius)
                IN /\ Len(vals) = w * w
                   /\ \A k \in 1 .. w * w :
                         vals[k] = ExpectedCode(<<p[1] - radius + ((k - 1) \div w),
                                                  p[2] - radius + ((k - 1) % w)>>))
    /\ [][(calls' = calls + 1 /\ last'.op = "Neighborhood")
            => /\ GameUnchanged
               /\ UNCHANGED <<num_rows, num_cols, mine_positions, num_neighbors>>]_vars

C16_Witness ==
    /\ last.op = "Neighborhood"
    /\ \E p, q, u \in Cells : board[p] = FLAG /\ board[q] = MINE /\ board[u] = UNKNOWN

\* C19: PlayGame's loop ends with the game dead or won, after at most
\* num_rows * num_cols - NumMinesTotal digs.
C19_PlayGameEnds ==
    /\ <>(Dead \/ Won)
    /\ [](calls <= num_rows * num_cols - NumMinesTotal)

C19_Witness ==
    /\ Won
    /\ ~Dead
    /\ calls = 3
    /\ calls = num_rows * num_cols - NumMinesTotal

\* A cell value that is a dug count, a detonated mine or lava.
Terminal(v) == IsNum(v) \/ v = MINE \/ v = LAVA

\* C21 as claimed: a cell that holds a dug count, MINE or LAVA keeps that
\* value through every later step.
C21_AsClaimed ==
    [][\A x \in Cells : Terminal(board[x]) => board'[x] = board[x]]_vars

\* C21 amended: MINE and LAVA cells are changed by no Dig; a dug count is
\* changed by a Dig only when the Dig is aimed at that cell, which turns it
\* to LAVA and kills the game; PlantFlag overwrites any cell with FLAG.
C21_TerminalCells ==
    [][\A x \in Cells :
          (Terminal(board[x]) /\ board'[x] # board[x])
          => \/ PlantFlagCalled(x) /\ board'[x] = FLAG
             \/ /\ DigCalled(x)
                /\ IsNum(board[x])
                /\ board'[x] = LAVA
                /\ dead']_vars

C21_Witness ==
    /\ last.op = "PlantFlag"
    /\ ValidPosition(last.row, last.col)
    /\ <<last.row, last.col>> \in mine_positions
    /\ <<last.row, last.col>> \in dug_cells
    /\ dead
    /\ board[<<last.row, last.col>>] = FLAG

\* The cells a step turns from UNKNOWN into a dug count.
NewlyDug == {x \in Cells : board[x] = UNKNOWN /\ IsNum(board'[x])}

\* C22: a Dig that returns True at a cell of the board raises dug_count by
\* the number of cells it turns from UNKNOWN into a dug count, the target
\* among them; a Dig that returns False, is aimed outside the board or is
\* refused leaves dug_count alone.
C22_DugCountPerCall ==
    [][\A p \in Coords :
          DigCalled(p)
          => IF last'.ret = "True" /\ p \in Cells
             THEN /\ p \in NewlyDug
                  /\ dug_count' = dug_count + Cardinality(NewlyDug)
             ELSE dug_count' = dug_count]_vars

C22_Witness ==
    /\ calls = 1
    /\ last.op = "Dig" /\ last.ret = "True"
    /\ ValidPosition(last.row, last.col)
    /\ mine_positions # {}
    /\ dug_count = 4
    /\ ~Won

C24_AsClaimed == flag_count = Cardinality({x \in Cells : board[x] = FLAG})

\* C25 as claimed: dug_count is the number of cells that hold a dug count
\* or MINE, and never goes down.
C25_AsClaimed ==
    /\ [](dug_count = Cardinality({x \in Cells : IsNum(board[x]) \/ board[x] = MINE}))
    /\ [][dug_count' >= dug_count]_vars

\* C25 amended: dug_count is the number of cells that Dig has ever turned
\* into a dug count (a detonated mine is not counted; a dug cell later
\* flagged or turned to LAVA stays counted), and never goes down.
C25_DugCount ==
    /\ [](dug_count = Cardinality(revealed_ever))
    /\ [][dug_count' >= dug_count]_vars

C25_Witness ==
    /\ dead
    /\ dug_count = 1
    /\ \E m \in Cells : board[m] = MINE
    /\ \E x \in revealed_ever : board[x] = FLAG

\* C26 as claimed: after a Dig that returns True at a cell of the board,
\* recently_poked holds every cell whose value the Dig changed.
C26_AsClaimed ==
    [][\A p \in Cells :
          (DigCalled(p) /\ last'.ret = "True")
          => \A x \in Cells :
                board'[x] # board[x]
                => \E i \in 1 .. Len(recently_poked') : recently_poked'[i] = x]_vars

\* C27 as claimed: Print and AsEmoji leave recently_poked empty and change
\* no cell, dug_count, flag_count or dead.
C27_AsClaimed ==
    [][(calls' = calls + 1 /\ last'.op \in {"Print", "AsEmoji"})
         => /\ recently_poked' = <<>>
            /\ board' = board
            /\ dug_count' = dug_count
            /\ flag_count' = flag_count
            /\ dead' = dead]_vars

\* C30 as claimed: Dead() and Won() never hold together.
C30_AsClaimed == ~(Dead /\ Won)

\* After a pass of the loop the job has the row it fetched.
RowStep == job.pc = "loop" /\ job'.step = "row" /\ job' # job

\* The row fetched at position i is what a stored history must hold there.
RowOK(i, r) ==
    /\ r.move_id = i
    /\ IF i = 0 THEN r.cmd = "NEW" ELSE r.cmd \in {"DIG", "FLAG"}

\* C28: tweet_mine.load_game_state goes past a stored row only if its move_id
\* is its position (0, 1, 2, ... in order), move 0 is NEW, a later move is DIG
\* or FLAG, and the replayed move leaves the game neither dead nor won;
\* otherwise it raises.  When it returns, the game is neither Dead nor Won
\* and the next move id it returns is the number of stored rows.
C28_TweetReplay ==
    /\ [][RowStep => /\ job'.pc \in {"loop", "raised"}
                     /\ job'.pc = "loop"
                        => /\ RowOK(job.expected, job'.row)
                           /\ ~Dead' /\ ~Won'
                           /\ job'.expected = job.expected + 1]_vars
    /\ [](job.pc = "returned"
          => /\ ~Dead /\ ~Won
             /\ job.expected >= 1
             /\ job.ret_move_id = job.expected)

C28_Witness ==
    /\ job.pc = "returned"
    /\ job.expected = 3
    /\ job.ret_move_id = 3
    /\ dug_count >= 2
    /\ mine_positions # {}

\* A game as the constructor leaves it.
Fresh ==
    /\ \A x \in Cells : board[x] = UNKNOWN
    /\ dug_count = 0 /\ flag_count = 0 /\ ~dead /\ recently_poked = <<>>

\* C29: masto_mine.load_game_state replays the rows of the latest game in
\* move_id order.  It returns: with no rows, a fresh game, game_id 1, move_id
\* -1; when the replayed game is Dead or Won, and only then, a fresh game,
\* the game_id plus one, move_id -1; else the replayed game, its game_id and
\* the last stored move_id.  So the move that main then makes is never
\* applied to a game that is Dead or Won.
C29_MastoRollover ==
    /\ [][(RowStep /\ job'.pc = "loop")
            => job'.row.move_id = job.expected /\ job'.game_id \in 1 .. MaxGames]_vars
    /\ [][(job.pc = "loop" /\ job'.pc = "returned")
            => IF job.expected = 0
               THEN Fresh' /\ job'.ret_game_id = 1 /\ job'.ret_move_id = -1
               ELSE IF Dead \/ Won
               THEN /\ Fresh'
                    /\ job'.ret_game_id = job.game_id + 1
                    /\ job'.ret_move_id = -1
               ELSE /\ UNCHANGED game
                    /\ job'.ret_game_id = job.game_id
                    /\ job'.ret_move_id = job.expected - 1
                    /\ job'.ret_move_id >= 0]_vars
    /\ [](job.pc = "returned" => ~Dead /\ ~Won)
    /\ [][(job.pc = "returned" /\ job'.pc = "moved" /\ job.ret_move_id = -1)
            => UNCHANGED game]_vars

C29_Witness ==
    /\ job.pc = "returned"
    /\ job.expected = 3
    /\ job.ret_game_id = 2
    /\ job.ret_move_id = -1
    /\ job.row.cmd = "DIG"
    /\ Fresh
    /\ mine_positions # {}

\* C31: in every state, a cell that shows a number is not a mine and shows
\* its num_neighbors, which is between 0 and 8; a mine cell is UNKNOWN, FLAG
\* or MINE, never a number and never LAVA.
C31_RevealedAreSafe ==
    \A x \in Cells :
        /\ IsNum(board[x])
           => /\ x \notin mine_positions
              /\ board[x] = Num(num_neighbors[x])
              /\ num_neighbors[x] \in 0 .. 8
        /\ x \in mine_positions => board[x] \in {UNKNOWN, FLAG, MINE}

C31_Witness ==
    /\ last.op = "Dig"
    /\ dug_count >= 3
    /\ \E m \in mine_positions : board[m] = MINE
    /\ \E x \in Cells : IsNum(board[x]) /\ num_neighbors[x] = 0
    /\ \E x \in Cells : IsNum(board[x]) /\ num_neighbors[x] >= 1

\* The in-bounds cells around x (its Moore neighbours).
Around(x) ==
    {y \in Cells : y # x /\ y[1] - x[1] \in -1 .. 1 /\ y[2] - x[2] \in -1 .. 1}

\* C32: between calls, no cell that shows 0 has an in-bounds neighbour that
\* is still UNKNOWN.
C32_FloodFillClosed ==
    \A x \in Cells :
        board[x] = Num(0) => \A y \in Around(x) : board[y] # UNKNOWN

C32_Witness ==
    /\ calls = 3
    /\ last.op = "Dig" /\ last.ret = "True"
    /\ \E x \in Cells : board[x] = Num(0) /\ \E y \in Around(x) : board[y] = FLAG
    /\ \E x \in Cells : board[x] = UNKNOWN
    /\ Cardinality({x \in Cells : board[x] = Num(0)}) >= 2

\* A cell without a mine that was flagged while UNKNOWN: it shows FLAG, or
\* LAVA once it was dug, and never showed a number.
SafeFlagged(x) ==
    /\ x \notin mine_positions
    /\ x \notin revealed_ever
    /\ board[x] \in {FLAG, LAVA}

\* C33: a PlantFlag on an UNKNOWN cell without a mine leaves the cell
\* SafeFlagged; a SafeFlagged cell stays so under every later call; and
\* Won() is false in every state that has such a cell.  So after such a flag
\* Won() is false for good.
C33_SafeFlagNeverWon ==
    /\ [][\A x \in Cells :
            /\ (PlantFlagCalled(x) /\ board[x] = UNKNOWN /\ x \notin mine_positions)
               => SafeFlagged(x)'
            /\ SafeFlagged(x) => SafeFlagged(x)']_vars
    /\ []((\E x \in Cells : SafeFlagged(x)) => ~Won)

C33_Witness ==
    /\ calls = 3
    /\ last.op = "Dig" /\ last.ret = "True"
    /\ \E x \in Cells : SafeFlagged(x) /\ board[x] = FLAG
    /\ dug_count = num_rows * num_cols - NumMinesTotal - 1
    /\ mine_positions # {}
    /\ ~dead

====
